---- MODULE Spec2Model ----
(***************************************************************************)
(* The rlox scanner (src/src/scanner.rs) as a state machine.  One scan of  *)
(* one source text: the fields of Scanner are the variables, every match   *)
(* arm of scan_token and every iteration of a sub-scan loop is an action.  *)
(* A source is a sequence of characters; `start` and `current` are byte    *)
(* offsets into its UTF-8 encoding, as in the code.                        *)
(***************************************************************************)
EXTENDS Integers, Sequences, FiniteSets, TLC

VARIABLES source, tokens, start, current, line, pc, depth, diagnostics

vars == <<source, tokens, start, current, line, pc, depth, diagnostics>>

----------------------------------------------------------------------------
(* Bounds of the explored inputs *)

MaxLen == 3

MaxFocusLen == 5

MaxChunks == 5

MaxLiveLen == 3

----------------------------------------------------------------------------
(* Characters.  A character is a one-character string; characters outside  *)
(* ASCII are named by their code point.                                    *)

NUL == "NUL"

Multibyte2 == "U+00E9"

Multibyte3 == "U+20AC"

Multibyte4 == "U+1F600"

\* char::len_utf8
len_utf8(c) ==
    CASE c = Multibyte2 -> 2
      [] c = Multibyte3 -> 3
      [] c = Multibyte4 -> 4
      [] OTHER -> 1

Digits == {"0", "1", "2", "3", "4", "5", "6", "7", "8", "9"}

Letters == {"a", "b", "c", "d", "e", "f", "g", "h", "i", "j", "k", "l", "m",
            "n", "o", "p", "q", "r", "s", "t", "u", "v", "w", "x", "y", "z",
            "A", "B", "C", "D", "E", "F", "G", "H", "I", "J", "K", "L", "M",
            "N", "O", "P", "Q", "R", "S", "T", "U", "V", "W", "X", "Y", "Z"}

is_digit(c) == c \in Digits

\* is_alpha taking letters outside ASCII too (char::is_alphabetic)
is_alpha_Unicode(c) == c \in Letters \/ c = "_" \/ c = Multibyte2

is_alpha(c) == c \in Letters \/ c = "_"

is_alpha_numeric(c) == is_alpha(c) \/ is_digit(c)

keyword_type(text) ==
    CASE text = <<"a", "n", "d">> -> "And"
      [] text = <<"c", "l", "a", "s", "s">> -> "Class"
      [] text = <<"e", "l", "s", "e">> -> "Else"
      [] text = <<"f", "a", "l", "s", "e">> -> "False"
      [] text = <<"f", "o", "r">> -> "For"
      [] text = <<"f", "u", "n">> -> "Fun"
      [] text = <<"i", "f">> -> "If"
      [] text = <<"n", "i", "l">> -> "Nil"
      [] text = <<"o", "r">> -> "Or"
      [] text = <<"p", "r", "i", "n", "t">> -> "Print"
      [] text = <<"r", "e", "t", "u", "r", "n">> -> "Return"
      [] text = <<"s", "u", "p", "e", "r">> -> "Super"
      [] text = <<"t", "h", "i", "s">> -> "This"
      [] text = <<"t", "r", "u", "e">> -> "True"
      [] text = <<"v", "a", "r">> -> "Var"
      [] text = <<"w", "h", "i", "l", "e">> -> "While"
      [] OTHER -> "None"

\* the single-character arms of scan_token
PunctType(c) ==
    CASE c = "(" -> "LeftParen"
      [] c = ")" -> "RightParen"
      [] c = "{" -> "LeftBrace"
      [] c = "}" -> "RightBrace"
      [] c = "," -> "Comma"
      [] c = "." -> "Dot"
      [] c = "+" -> "Plus"
      [] c = "-" -> "Minus"
      [] c = ";" -> "Semicolon"
      [] c = "*" -> "Star"

PunctChars == {"(", ")", "{", "}", ",", ".", "+", "-", ";", "*"}

\* the one/two-character arms of scan_token
OperatorType(c, followed) ==
    CASE c = "!" -> IF followed THEN "BangEqual" ELSE "Bang"
      [] c = "=" -> IF followed THEN "EqualEqual" ELSE "Equal"
      [] c = "<" -> IF followed THEN "LessEqual" ELSE "Less"
      [] c = ">" -> IF followed THEN "GreaterEqual" ELSE "Greater"

OperatorChars == {"!", "=", "<", ">"}

\* the whitespace arm without the carriage return
WhitespaceChars_NoCR == {" ", "\t"}

WhitespaceChars == {" ", "\r", "\t"}

----------------------------------------------------------------------------
(* Literals and tokens *)

NoLiteral == [tag |-> "None"]

LiteralString(value) == [tag |-> "String", value |-> value]

LiteralNumber(value) == [tag |-> "Number", value |-> value]

Token(token_type, lexeme, literal, ln) ==
    [token_type |-> token_type, lexeme |-> lexeme, literal |-> literal, line |-> ln]

----------------------------------------------------------------------------
(* <f64 as FromStr>::from_str on the texts the scanner can hand it: a text *)
(* of digits with at most one dot and at least one digit parses; the value *)
(* is kept as the decimal mantissa / 10^scale with trailing zeros removed. *)

DigitValue(c) ==
    CASE c = "0" -> 0 [] c = "1" -> 1 [] c = "2" -> 2 [] c = "3" -> 3
      [] c = "4" -> 4 [] c = "5" -> 5 [] c = "6" -> 6 [] c = "7" -> 7
      [] c = "8" -> 8 [] c = "9" -> 9

RECURSIVE Mantissa(_)
Mantissa(text) ==
    IF text = <<>> THEN 0
    ELSE LET c == text[Len(text)]
             rest == SubSeq(text, 1, Len(text) - 1)
         IN IF c = "." THEN Mantissa(rest) ELSE 10 * Mantissa(rest) + DigitValue(c)

RECURSIVE Normalise(_, _)
Normalise(m, s) ==
    IF s > 0 /\ m % 10 = 0 THEN Normalise(m \div 10, s - 1)
    ELSE [mantissa |-> m, scale |-> s]

ParseF64(text) ==
    LET dots == {i \in 1..Len(text) : text[i] = "."}
        digs == {i \in 1..Len(text) : is_digit(text[i])}
    IN IF Cardinality(dots) <= 1 /\ digs # {} /\ Cardinality(dots) + Cardinality(digs) = Len(text)
       THEN [ok |-> TRUE,
             value |-> Normalise(Mantissa(text),
                                 IF dots = {} THEN 0 ELSE Len(text) - (CHOOSE i \in dots : TRUE))]
       ELSE [ok |-> FALSE, value |-> Normalise(0, 0)]

----------------------------------------------------------------------------
(* The source as UTF-8 text: byte lengths, character boundaries, slices *)

RECURSIVE ByteLen(_)
ByteLen(s) == IF s = <<>> THEN 0 ELSE len_utf8(s[1]) + ByteLen(Tail(s))

\* byte offset of the end of the first i characters of the source
PrefixBytes(i) == ByteLen(SubSeq(source, 1, i))

\* str::is_char_boundary
IsCharBoundary(off) == \E i \in 0..Len(source) : PrefixBytes(i) = off

\* number of characters before a byte offset that is a character boundary
CharsBefore(off) == CHOOSE i \in 0..Len(source) : PrefixBytes(i) = off

\* &source[lo..hi] does not panic
SliceOk(lo, hi) == lo <= hi /\ IsCharBoundary(lo) /\ IsCharBoundary(hi)

\* &source[lo..hi]
Slice(lo, hi) == SubSeq(source, CharsBefore(lo) + 1, CharsBefore(hi))

\* source[off..].chars().next().unwrap_or('\0')
CharAfter(off) ==
    LET i == CharsBefore(off) IN IF i < Len(source) THEN source[i + 1] ELSE NUL

is_at_end == current >= ByteLen(source)

peek == IF is_at_end THEN NUL ELSE CharAfter(current)

\* peek_next without the step over the first character
peek_next_NoSkip == IF is_at_end THEN NUL ELSE CharAfter(current)

peek_next ==
    IF is_at_end THEN NUL
    ELSE LET i == CharsBefore(current) IN
         IF i + 2 <= Len(source) THEN source[i + 2] ELSE NUL

\* advanced() moving by one byte whatever the character
advanced_FixedWidth(off) == off + 1

\* the offset after advanced() is called at offset off
advanced(off) == off + len_utf8(CharAfter(off))

\* matches without the comparison with `expected`
matches_AnyChar(off, expected) ==
    IF off >= ByteLen(source) THEN off
    ELSE off + len_utf8(CharAfter(off))

\* Scanner::matches at offset off: the new offset, or off when it returns false
matches(off, expected) ==
    IF off >= ByteLen(source) THEN off
    ELSE IF CharAfter(off) # expected THEN off
    ELSE off + len_utf8(expected)

\* lexeme with the slice ending one byte early
lexeme_OffByOne(st, cur) == Slice(st, cur - 1)

lexeme(st, cur) == Slice(st, cur)

add_token_opt_literal(token_type, literal, st, cur, ln) ==
    Append(tokens, Token(token_type, lexeme(st, cur), literal, ln))

add_token(token_type, st, cur, ln) ==
    add_token_opt_literal(token_type, NoLiteral, st, cur, ln)

add_token_literal(token_type, literal, st, cur, ln) ==
    add_token_opt_literal(token_type, literal, st, cur, ln)

error_at_line(message, ln) ==
    Append(diagnostics, [line |-> ln, message |-> message])

----------------------------------------------------------------------------
(* The explored source texts *)

SeqsUpTo(A, n) == UNION {[1..k -> A] : k \in 0..n}

RECURSIVE Flatten(_)
Flatten(ss) == IF ss = <<>> THEN <<>> ELSE ss[1] \o Flatten(Tail(ss))

\* every lexical category at once, a multi-byte character included
MixedAlphabet == {"+", ".", "=", "/", "*", " ", "\n", "\"", "1", "o", "r", "@", Multibyte2}

MixedSources == SeqsUpTo(MixedAlphabet, MaxLen)

OperatorSources == SeqsUpTo({"!", "=", "<", ">"}, MaxFocusLen)

NumberSources == SeqsUpTo({"1", "2", "."}, MaxFocusLen)

StringSources == SeqsUpTo({"\"", "\n", "\\", "a"}, MaxFocusLen)

\* block comments, nested, unterminated, with text around them
CommentChunks == {<<"/", "*">>, <<"*", "/">>, <<"/">>, <<"*">>, <<"+">>, <<"\n">>}

CommentSources == {Flatten(cs) : cs \in SeqsUpTo(CommentChunks, MaxChunks)}

\* one character of every arm of scan_token, alone and followed by another
ArmSources ==
    SeqsUpTo(PunctChars \cup {"/"}, 2) \cup SeqsUpTo(WhitespaceChars \cup {"\n", "+"}, 2)

\* one character of every arm and sub-scan, for the termination check
LiveSources == SeqsUpTo({"/", "*", "\n", "\"", "1", ".", "o", "=", " ", "@"}, MaxLiveLen)

\* spaces, carriage returns and tabs only
WhitespaceSources == SeqsUpTo({" ", "\r", "\t"}, MaxFocusLen)

\* characters of two, three and four bytes inside comments and strings
UnicodeChunks ==
    {<<"/", "*">>, <<"*", "/">>, <<"/", "/">>, <<"\"">>, <<"o">>,
     <<Multibyte2>>, <<Multibyte3>>, <<Multibyte4>>}

UnicodeSources == {Flatten(cs) : cs \in SeqsUpTo(UnicodeChunks, MaxLen)}

\* the reserved words, alone, as prefixes of longer words, cut short, after
\* other characters, and in other letter case
Keywords ==
    {<<"a", "n", "d">>, <<"c", "l", "a", "s", "s">>, <<"e", "l", "s", "e">>,
     <<"f", "a", "l", "s", "e">>, <<"f", "o", "r">>, <<"f", "u", "n">>, <<"i", "f">>,
     <<"n", "i", "l">>, <<"o", "r">>, <<"p", "r", "i", "n", "t">>,
     <<"r", "e", "t", "u", "r", "n">>, <<"s", "u", "p", "e", "r">>, <<"t", "h", "i", "s">>,
     <<"t", "r", "u", "e">>, <<"v", "a", "r">>, <<"w", "h", "i", "l", "e">>}

KeywordSources ==
    Keywords
        \cup {k \o <<c>> : k \in Keywords, c \in {"y", "_", "1", " ", "+", Multibyte2}}
        \cup {<<c>> \o k : k \in Keywords, c \in {"_", "1", "+"}}
        \cup {SubSeq(k, 1, Len(k) - 1) : k \in Keywords}
        \cup {k \o <<" ">> \o k \o <<"y">> : k \in Keywords}
        \cup {<<"O", "r">>, <<"I", "F">>, <<"f", "o", "r", "f", "u", "n">>}

Sources ==
    MixedSources \cup OperatorSources \cup NumberSources \cup StringSources
        \cup CommentSources \cup ArmSources \cup WhitespaceSources \cup UnicodeSources
        \cup KeywordSources

----------------------------------------------------------------------------
(* Scanner::new *)

new(src) ==
    /\ source = src
    /\ tokens = <<>>
    /\ start = 0
    /\ current = 0
    /\ line = 1
    /\ pc = "main"
    /\ depth = 0
    /\ diagnostics = <<>>

Init == \E src \in Sources : new(src)

LiveInit == \E src \in LiveSources : new(src)

\* a slice off a character boundary, or out of range, panics
Abort ==
    /\ pc' = "panicked"
    /\ UNCHANGED <<source, tokens, start, current, line, depth, diagnostics>>

\* scan_tokens: the loop body up to the match of scan_token
AtDispatch == pc = "main" /\ ~is_at_end

----------------------------------------------------------------------------
(* scan_token, one action per match arm *)

ScanPunct ==
    /\ AtDispatch
    /\ IF ~IsCharBoundary(current) THEN Abort
       ELSE LET c == CharAfter(current) IN
            /\ c \in PunctChars
            /\ start' = current
            /\ current' = advanced(current)
            /\ tokens' = add_token(PunctType(c), current, advanced(current), line)
            /\ UNCHANGED <<source, line, pc, depth, diagnostics>>

ScanOperator ==
    /\ AtDispatch
    /\ IF ~IsCharBoundary(current) THEN Abort
       ELSE LET c == CharAfter(current)
                cur == matches(advanced(current), "=")
            IN
            /\ c \in OperatorChars
            /\ start' = current
            /\ current' = cur
            /\ tokens' = add_token(OperatorType(c, cur # advanced(current)), current, cur, line)
            /\ UNCHANGED <<source, line, pc, depth, diagnostics>>

ScanSlash ==
    /\ AtDispatch
    /\ IF ~IsCharBoundary(current) THEN Abort
       ELSE /\ CharAfter(current) = "/"
            /\ start' = current
            /\ IF matches(advanced(current), "/") # advanced(current)
               THEN /\ current' = matches(advanced(current), "/")
                    /\ pc' = "line_comment"
                    /\ UNCHANGED <<tokens, depth>>
               ELSE IF matches(advanced(current), "*") # advanced(current)
               THEN /\ current' = matches(advanced(current), "*")
                    /\ pc' = "block_comment"
                    /\ depth' = 1
                    /\ UNCHANGED tokens
               ELSE /\ current' = advanced(current)
                    /\ tokens' = add_token("Slash", current, advanced(current), line)
                    /\ UNCHANGED <<pc, depth>>
            /\ UNCHANGED <<source, line, diagnostics>>

ScanWhitespace ==
    /\ AtDispatch
    /\ IF ~IsCharBoundary(current) THEN Abort
       ELSE /\ CharAfter(current) \in WhitespaceChars
            /\ start' = current
            /\ current' = advanced(current)
            /\ UNCHANGED <<source, tokens, line, pc, depth, diagnostics>>

\* the newline arm with the counter going the wrong way
ScanNewline_Decrement ==
    /\ AtDispatch
    /\ IF ~IsCharBoundary(current) THEN Abort
       ELSE /\ CharAfter(current) = "\n"
            /\ start' = current
            /\ current' = advanced(current)
            /\ line' = line - 1
            /\ UNCHANGED <<source, tokens, pc, depth, diagnostics>>

ScanNewline ==
    /\ AtDispatch
    /\ IF ~IsCharBoundary(current) THEN Abort
       ELSE /\ CharAfter(current) = "\n"
            /\ start' = current
            /\ current' = advanced(current)
            /\ line' = line + 1
            /\ UNCHANGED <<source, tokens, pc, depth, diagnostics>>

ScanQuote ==
    /\ AtDispatch
    /\ IF ~IsCharBoundary(current) THEN Abort
       ELSE /\ CharAfter(current) = "\""
            /\ start' = current
            /\ current' = advanced(current)
            /\ pc' = "string"
            /\ UNCHANGED <<source, tokens, line, depth, diagnostics>>

\* the arms that are tried before the `_` arm
EarlierArms == PunctChars \cup OperatorChars \cup WhitespaceChars \cup {"/", "\n", "\""}

ScanDigit ==
    /\ AtDispatch
    /\ IF ~IsCharBoundary(current) THEN Abort
       ELSE LET c == CharAfter(current) IN
            /\ c \notin EarlierArms
            /\ is_digit(c)
            /\ start' = current
            /\ current' = advanced(current)
            /\ pc' = "number"
            /\ UNCHANGED <<source, tokens, line, depth, diagnostics>>

ScanAlpha ==
    /\ AtDispatch
    /\ IF ~IsCharBoundary(current) THEN Abort
       ELSE LET c == CharAfter(current) IN
            /\ c \notin EarlierArms
            /\ ~is_digit(c)
            /\ is_alpha(c)
            /\ start' = current
            /\ current' = advanced(current)
            /\ pc' = "identifier"
            /\ UNCHANGED <<source, tokens, line, depth, diagnostics>>

ScanUnexpected ==
    /\ AtDispatch
    /\ IF ~IsCharBoundary(current) THEN Abort
       ELSE LET c == CharAfter(current) IN
            /\ c \notin EarlierArms
            /\ ~is_digit(c)
            /\ ~is_alpha(c)
            /\ start' = current
            /\ current' = advanced(current)
            /\ diagnostics' = error_at_line("Unexpected character.", line)
            /\ UNCHANGED <<source, tokens, line, pc, depth>>

----------------------------------------------------------------------------
(* The sub-scans, one action per loop iteration (the exit included) *)

\* the `//` loop without its end-of-input guard: advanced() past the end panics
LineCommentStep_NoEndGuard ==
    /\ pc = "line_comment"
    /\ IF current > ByteLen(source) \/ ~IsCharBoundary(current) THEN Abort
       ELSE /\ IF peek # "\n"
               THEN current' = advanced(current) /\ UNCHANGED pc
               ELSE pc' = "main" /\ UNCHANGED current
            /\ UNCHANGED <<source, tokens, start, line, depth, diagnostics>>

\* the `//` loop taking the newline that ends the comment with it
LineCommentStep_EatsNewline ==
    /\ pc = "line_comment"
    /\ IF ~is_at_end /\ ~IsCharBoundary(current) THEN Abort
       ELSE /\ IF peek # "\n" /\ ~is_at_end
               THEN current' = advanced(current) /\ UNCHANGED pc
               ELSE pc' = "main" /\ current' = (IF is_at_end THEN current ELSE advanced(current))
            /\ UNCHANGED <<source, tokens, start, line, depth, diagnostics>>

\* scan_token, the `while` of the `//` arm
LineCommentStep ==
    /\ pc = "line_comment"
    /\ IF ~is_at_end /\ ~IsCharBoundary(current) THEN Abort
       ELSE /\ IF peek # "\n" /\ ~is_at_end
               THEN current' = advanced(current) /\ UNCHANGED pc
               ELSE pc' = "main" /\ UNCHANGED current
            /\ UNCHANGED <<source, tokens, start, line, depth, diagnostics>>

\* block_comment called with nesting switched off
allow_nesting_Off == FALSE

\* the value of the parameter at the only call site, block_comment(true)
allow_nesting == TRUE

\* block_comment leaving one nesting level, not the function, at end of input
BlockCommentStep_ReportsPerDepth ==
    /\ pc = "block_comment"
    /\ IF ~is_at_end /\ ~IsCharBoundary(current) THEN Abort
       ELSE /\ IF depth <= 0
               THEN pc' = "main" /\ UNCHANGED <<current, line, depth, diagnostics>>
               ELSE IF is_at_end
               THEN /\ diagnostics' = error_at_line("Unterminated block comment.", line)
                    /\ depth' = depth - 1
                    /\ UNCHANGED <<current, line, pc>>
               ELSE IF peek = "\n"
               THEN /\ line' = line + 1
                    /\ current' = advanced(current)
                    /\ UNCHANGED <<pc, depth, diagnostics>>
               ELSE IF peek = "/" /\ peek_next = "*"
               THEN IF allow_nesting
                    THEN /\ current' = advanced(advanced(current))
                         /\ depth' = depth + 1
                         /\ UNCHANGED <<pc, line, diagnostics>>
                    ELSE /\ current' = advanced(current)
                         /\ UNCHANGED <<pc, line, depth, diagnostics>>
               ELSE IF peek = "*" /\ peek_next = "/"
               THEN /\ current' = advanced(advanced(current))
                    /\ depth' = depth - 1
                    /\ UNCHANGED <<pc, line, diagnostics>>
               ELSE /\ current' = advanced(current)
                    /\ UNCHANGED <<pc, line, depth, diagnostics>>
            /\ UNCHANGED <<source, tokens, start>>

\* block_comment passing over newlines without counting them
BlockCommentStep_SkipsNewlines ==
    /\ pc = "block_comment"
    /\ IF ~is_at_end /\ ~IsCharBoundary(current) THEN Abort
       ELSE /\ IF depth <= 0
               THEN pc' = "main" /\ UNCHANGED <<current, line, depth, diagnostics>>
               ELSE IF is_at_end
               THEN /\ diagnostics' = error_at_line("Unterminated block comment.", line)
                    /\ pc' = "main"
                    /\ UNCHANGED <<current, line, depth>>
               ELSE IF peek = "\n"
               THEN /\ line' = line
                    /\ current' = advanced(current)
                    /\ UNCHANGED <<pc, depth, diagnostics>>
               ELSE IF peek = "/" /\ peek_next = "*"
               THEN IF allow_nesting
                    THEN /\ current' = advanced(advanced(current))
                         /\ depth' = depth + 1
                         /\ UNCHANGED <<pc, line, diagnostics>>
                    ELSE /\ current' = advanced(current)
                         /\ UNCHANGED <<pc, line, depth, diagnostics>>
               ELSE IF peek = "*" /\ peek_next = "/"
               THEN /\ current' = advanced(advanced(current))
                    /\ depth' = depth - 1
                    /\ UNCHANGED <<pc, line, diagnostics>>
               ELSE /\ current' = advanced(current)
                    /\ UNCHANGED <<pc, line, depth, diagnostics>>
            /\ UNCHANGED <<source, tokens, start>>

\* block_comment: one pass through `while depth > 0`
BlockCommentStep ==
    /\ pc = "block_comment"
    /\ IF ~is_at_end /\ ~IsCharBoundary(current) THEN Abort
       ELSE /\ IF depth <= 0
               THEN pc' = "main" /\ UNCHANGED <<current, line, depth, diagnostics>>
               ELSE IF is_at_end
               THEN /\ diagnostics' = error_at_line("Unterminated block comment.", line)
                    /\ pc' = "main"
                    /\ UNCHANGED <<current, line, depth>>
               ELSE IF peek = "\n"
               THEN /\ line' = line + 1
                    /\ current' = advanced(current)
                    /\ UNCHANGED <<pc, depth, diagnostics>>
               ELSE IF peek = "/" /\ peek_next = "*"
               THEN IF allow_nesting
                    THEN /\ current' = advanced(advanced(current))
                         /\ depth' = depth + 1
                         /\ UNCHANGED <<pc, line, diagnostics>>
                    ELSE /\ current' = advanced(current)
                         /\ UNCHANGED <<pc, line, depth, diagnostics>>
               ELSE IF peek = "*" /\ peek_next = "/"
               THEN /\ current' = advanced(advanced(current))
                    /\ depth' = depth - 1
                    /\ UNCHANGED <<pc, line, diagnostics>>
               ELSE /\ current' = advanced(current)
                    /\ UNCHANGED <<pc, line, depth, diagnostics>>
            /\ UNCHANGED <<source, tokens, start>>

\* string without the newline count
StringStep_NoLineCount ==
    /\ pc = "string"
    /\ IF ~is_at_end /\ ~IsCharBoundary(current) THEN Abort
       ELSE /\ IF peek # "\"" /\ ~is_at_end
               THEN /\ line' = line
                    /\ current' = advanced(current)
                    /\ UNCHANGED <<tokens, pc, diagnostics>>
               ELSE IF is_at_end
               THEN /\ diagnostics' = error_at_line("Unterminated string.", line)
                    /\ pc' = "main"
                    /\ UNCHANGED <<tokens, current, line>>
               ELSE IF ~SliceOk(start + 1, advanced(current) - 1)
               THEN /\ pc' = "panicked"
                    /\ current' = advanced(current)
                    /\ UNCHANGED <<tokens, line, diagnostics>>
               ELSE /\ current' = advanced(current)
                    /\ tokens' = add_token_literal("String",
                                     LiteralString(Slice(start + 1, advanced(current) - 1)),
                                     start, advanced(current), line)
                    /\ pc' = "main"
                    /\ UNCHANGED <<line, diagnostics>>
            /\ UNCHANGED <<source, start, depth>>

\* string testing for the newline after, not before, consuming the character
StringStep_CountsAfterAdvance ==
    /\ pc = "string"
    /\ IF ~is_at_end /\ ~IsCharBoundary(current) THEN Abort
       ELSE /\ IF peek # "\"" /\ ~is_at_end
               THEN /\ line' = (IF CharAfter(advanced(current)) = "\n" THEN line + 1 ELSE line)
                    /\ current' = advanced(current)
                    /\ UNCHANGED <<tokens, pc, diagnostics>>
               ELSE IF is_at_end
               THEN /\ diagnostics' = error_at_line("Unterminated string.", line)
                    /\ pc' = "main"
                    /\ UNCHANGED <<tokens, current, line>>
               ELSE IF ~SliceOk(start + 1, advanced(current) - 1)
               THEN /\ pc' = "panicked"
                    /\ current' = advanced(current)
                    /\ UNCHANGED <<tokens, line, diagnostics>>
               ELSE /\ current' = advanced(current)
                    /\ tokens' = add_token_literal("String",
                                     LiteralString(Slice(start + 1, advanced(current) - 1)),
                                     start, advanced(current), line)
                    /\ pc' = "main"
                    /\ UNCHANGED <<line, diagnostics>>
            /\ UNCHANGED <<source, start, depth>>

\* string pushing a token for the text read so far when the input ends
StringStep_PushesUnterminated ==
    /\ pc = "string"
    /\ IF ~is_at_end /\ ~IsCharBoundary(current) THEN Abort
       ELSE /\ IF peek # "\"" /\ ~is_at_end
               THEN /\ line' = (IF peek = "\n" THEN line + 1 ELSE line)
                    /\ current' = advanced(current)
                    /\ UNCHANGED <<tokens, pc, diagnostics>>
               ELSE IF is_at_end
               THEN /\ diagnostics' = error_at_line("Unterminated string.", line)
                    /\ tokens' = add_token_literal("String",
                                     LiteralString(Slice(start + 1, current)),
                                     start, current, line)
                    /\ pc' = "main"
                    /\ UNCHANGED <<current, line>>
               ELSE IF ~SliceOk(start + 1, advanced(current) - 1)
               THEN /\ pc' = "panicked"
                    /\ current' = advanced(current)
                    /\ UNCHANGED <<tokens, line, diagnostics>>
               ELSE /\ current' = advanced(current)
                    /\ tokens' = add_token_literal("String",
                                     LiteralString(Slice(start + 1, advanced(current) - 1)),
                                     start, advanced(current), line)
                    /\ pc' = "main"
                    /\ UNCHANGED <<line, diagnostics>>
            /\ UNCHANGED <<source, start, depth>>

\* string treating a quote after a backslash as part of the literal
StringStep_EscapesQuote ==
    /\ pc = "string"
    /\ IF ~is_at_end /\ ~IsCharBoundary(current) THEN Abort
       ELSE /\ IF (peek # "\"" \/ source[CharsBefore(current)] = "\\") /\ ~is_at_end
               THEN /\ line' = (IF peek = "\n" THEN line + 1 ELSE line)
                    /\ current' = advanced(current)
                    /\ UNCHANGED <<tokens, pc, diagnostics>>
               ELSE IF is_at_end
               THEN /\ diagnostics' = error_at_line("Unterminated string.", line)
                    /\ pc' = "main"
                    /\ UNCHANGED <<tokens, current, line>>
               ELSE IF ~SliceOk(start + 1, advanced(current) - 1)
               THEN /\ pc' = "panicked"
                    /\ current' = advanced(current)
                    /\ UNCHANGED <<tokens, line, diagnostics>>
               ELSE /\ current' = advanced(current)
                    /\ tokens' = add_token_literal("String",
                                     LiteralString(Slice(start + 1, advanced(current) - 1)),
                                     start, advanced(current), line)
                    /\ pc' = "main"
                    /\ UNCHANGED <<line, diagnostics>>
            /\ UNCHANGED <<source, start, depth>>

\* string: one pass through the `while`, or the code after it
StringStep ==
    /\ pc = "string"
    /\ IF ~is_at_end /\ ~IsCharBoundary(current) THEN Abort
       ELSE /\ IF peek # "\"" /\ ~is_at_end
               THEN /\ line' = (IF peek = "\n" THEN line + 1 ELSE line)
                    /\ current' = advanced(current)
                    /\ UNCHANGED <<tokens, pc, diagnostics>>
               ELSE IF is_at_end
               THEN /\ diagnostics' = error_at_line("Unterminated string.", line)
                    /\ pc' = "main"
                    /\ UNCHANGED <<tokens, current, line>>
               ELSE IF ~SliceOk(start + 1, advanced(current) - 1)
               THEN /\ pc' = "panicked"
                    /\ current' = advanced(current)
                    /\ UNCHANGED <<tokens, line, diagnostics>>
               ELSE /\ current' = advanced(current)
                    /\ tokens' = add_token_literal("String",
                                     LiteralString(Slice(start + 1, advanced(current) - 1)),
                                     start, advanced(current), line)
                    /\ pc' = "main"
                    /\ UNCHANGED <<line, diagnostics>>
            /\ UNCHANGED <<source, start, depth>>

\* number pushing its token without the literal
NumberEnd_NoLiteral ==
    LET parsed == ParseF64(lexeme(start, current)) IN
    /\ diagnostics' = (IF parsed.ok THEN diagnostics
                       ELSE error_at_line("Invalid number literal.", line))
    /\ tokens' = add_token("Number", start, current, line)
    /\ pc' = "main"
    /\ UNCHANGED current

\* number: the code after the loops: parse the lexeme, push the token
NumberEnd ==
    LET parsed == ParseF64(lexeme(start, current)) IN
    /\ diagnostics' = (IF parsed.ok THEN diagnostics
                       ELSE error_at_line("Invalid number literal.", line))
    /\ tokens' = add_token_literal("Number", LiteralNumber(parsed.value), start, current, line)
    /\ pc' = "main"
    /\ UNCHANGED current

\* number taking the dot without looking at the character after it
NumberStep_AbsorbsDot ==
    /\ pc = "number"
    /\ IF ~is_at_end /\ ~IsCharBoundary(current) THEN Abort
       ELSE /\ IF is_digit(peek)
               THEN /\ current' = advanced(current)
                    /\ UNCHANGED <<tokens, pc, diagnostics>>
               ELSE IF peek = "."
               THEN /\ current' = advanced(current)
                    /\ pc' = "fraction"
                    /\ UNCHANGED <<tokens, diagnostics>>
               ELSE NumberEnd
            /\ UNCHANGED <<source, start, line, depth>>

\* number: the first `while`, then the test for a fractional part
NumberStep ==
    /\ pc = "number"
    /\ IF ~is_at_end /\ ~IsCharBoundary(current) THEN Abort
       ELSE /\ IF is_digit(peek)
               THEN /\ current' = advanced(current)
                    /\ UNCHANGED <<tokens, pc, diagnostics>>
               ELSE IF peek = "." /\ is_digit(peek_next)
               THEN /\ current' = advanced(current)
                    /\ pc' = "fraction"
                    /\ UNCHANGED <<tokens, diagnostics>>
               ELSE NumberEnd
            /\ UNCHANGED <<source, start, line, depth>>

\* number: the second `while`, then the parse and the token
FractionStep ==
    /\ pc = "fraction"
    /\ IF ~is_at_end /\ ~IsCharBoundary(current) THEN Abort
       ELSE /\ IF is_digit(peek)
               THEN /\ current' = advanced(current)
                    /\ UNCHANGED <<tokens, pc, diagnostics>>
               ELSE NumberEnd
            /\ UNCHANGED <<source, start, line, depth>>

\* identifier ending its run as soon as the text read is a reserved word
IdentifierStep_StopsAtKeyword ==
    /\ pc = "identifier"
    /\ IF ~is_at_end /\ ~IsCharBoundary(current) THEN Abort
       ELSE /\ IF is_alpha_numeric(peek) /\ keyword_type(lexeme(start, current)) = "None"
               THEN /\ current' = advanced(current)
                    /\ UNCHANGED <<tokens, pc>>
               ELSE LET text == lexeme(start, current)
                        token_type == IF keyword_type(text) = "None" THEN "Identifier"
                                      ELSE keyword_type(text)
                    IN /\ tokens' = add_token(token_type, start, current, line)
                       /\ pc' = "main"
                       /\ UNCHANGED current
            /\ UNCHANGED <<source, start, line, depth, diagnostics>>

\* identifier: one pass through the `while`, or the keyword lookup after it
IdentifierStep ==
    /\ pc = "identifier"
    /\ IF ~is_at_end /\ ~IsCharBoundary(current) THEN Abort
       ELSE /\ IF is_alpha_numeric(peek)
               THEN /\ current' = advanced(current)
                    /\ UNCHANGED <<tokens, pc>>
               ELSE LET text == lexeme(start, current)
                        token_type == IF keyword_type(text) = "None" THEN "Identifier"
                                      ELSE keyword_type(text)
                    IN /\ tokens' = add_token(token_type, start, current, line)
                       /\ pc' = "main"
                       /\ UNCHANGED current
            /\ UNCHANGED <<source, start, line, depth, diagnostics>>

\* the Eof pushed through add_token, with the lexeme of the last scan
PushEof_AddToken ==
    /\ pc = "main"
    /\ is_at_end
    /\ tokens' = add_token("Eof", start, current, line)
    /\ pc' = "done"
    /\ UNCHANGED <<source, start, current, line, depth, diagnostics>>

\* scan_tokens: the code after the loop
PushEof ==
    /\ pc = "main"
    /\ is_at_end
    /\ tokens' = Append(tokens, Token("Eof", <<>>, NoLiteral, line))
    /\ pc' = "done"
    /\ UNCHANGED <<source, start, current, line, depth, diagnostics>>

Next ==
    \/ ScanPunct
    \/ ScanOperator
    \/ ScanSlash
    \/ ScanWhitespace
    \/ ScanNewline
    \/ ScanQuote
    \/ ScanDigit
    \/ ScanAlpha
    \/ ScanUnexpected
    \/ LineCommentStep
    \/ BlockCommentStep
    \/ StringStep
    \/ NumberStep
    \/ FractionStep
    \/ IdentifierStep
    \/ PushEof

Spec == Init /\ [][Next]_vars

\* the scan is one synchronous call: a step that can be taken is taken
LiveSpec == LiveInit /\ [][Next]_vars /\ WF_vars(Next)

TypeOK ==
    /\ source \in Seq(STRING)
    /\ start \in Nat /\ current \in Nat /\ line \in Nat /\ depth \in Nat
    /\ pc \in {"main", "line_comment", "block_comment", "string", "number", "fraction",
               "identifier", "done", "panicked"}

----------------------------------------------------------------------------
(* Reference notions the properties are stated with, read off the source   *)
(* text alone, not off the scanner's counters                              *)

Last(seq) == seq[Len(seq)]

\* number of newline characters in a text
NewlineCount(text) == Cardinality({i \in 1..Len(text) : text[i] = "\n"})

\* 1-based line of the character that starts at byte offset off
LineOfOffset(off) ==
    1 + Cardinality({i \in 1..Len(source) : source[i] = "\n" /\ PrefixBytes(i - 1) < off})

\* this step pushed a token other than Eof
Emitted == Len(tokens') = Len(tokens) + 1 /\ pc' # "done"

----------------------------------------------------------------------------
\* C1: a finished scan has a non-empty token sequence whose last element is
\* Eof with an empty lexeme, no literal and the final value of the line
\* counter; Eof appears at no other position and at no earlier time, and no
\* source makes the scan panic.
C1_EofTerminated ==
    /\ pc # "panicked"
    /\ pc = "done" =>
          /\ tokens # <<>>
          /\ Last(tokens) = [token_type |-> "Eof", lexeme |-> <<>>,
                             literal |-> [tag |-> "None"], line |-> line]
    /\ \A i \in 1..Len(tokens) :
          tokens[i].token_type = "Eof" => pc = "done" /\ i = Len(tokens)

\* a malformed source (a diagnostic was reported) scanned to its end, with
\* tokens before the Eof
C1_Witness ==
    /\ pc = "done"
    /\ diagnostics # <<>>
    /\ Len(tokens) >= 2
    /\ Last(tokens).line >= 2

----------------------------------------------------------------------------
\* C2: every step of the main loop and of each sub-scan loop strictly
\* increases `current` or leaves its loop (a sub-scan returns to the main
\* loop, the main loop pushes Eof), and the state in which Eof has been
\* pushed is eventually reached.
C2_Progress ==
    \/ current' > current /\ pc' # "panicked"
    \/ pc # "main" /\ pc' = "main" /\ current' = current
    \/ pc = "main" /\ pc' = "done" /\ current' = current

----------------------------------------------------------------------------
\* C3 as claimed: every token's line is the line of the token's first
\* character, String tokens with newlines in their lexeme included.
C3_LineOfFirstChar ==
    [][Emitted => Last(tokens').line = LineOfOffset(start')]_vars

\* C3 as amended: every token's line is the line of its last character,
\* which is the line of its first character plus the number of newlines in
\* its lexeme; the two differ only for a String token whose lexeme contains
\* newlines.
C3_LineOfLastChar ==
    [][Emitted =>
          /\ Last(tokens').line = LineOfOffset(start') + NewlineCount(Last(tokens').lexeme)
          /\ Last(tokens').line = LineOfOffset(current' - 1)
          /\ Last(tokens').token_type # "String" => NewlineCount(Last(tokens').lexeme) = 0
      ]_vars

\* a String token with a newline in its lexeme, after a token on line 1
C3_Witness ==
    \E i \in 1..Len(tokens) :
        /\ tokens[i].token_type = "String"
        /\ NewlineCount(tokens[i].lexeme) >= 1
        /\ tokens[i].line >= 2
        /\ i >= 2

----------------------------------------------------------------------------
\* C4: a terminated string literal with k newlines between its quotes
\* yields exactly one String token, whose line is the line of the opening
\* quote plus k; while the literal is scanned no token is pushed and the
\* line counter goes up by one exactly when a newline is consumed.
C4_StringLine ==
    [][pc = "string" =>
          IF pc' = "main" /\ diagnostics' = diagnostics
          THEN /\ Len(tokens') = Len(tokens) + 1
               /\ SubSeq(tokens', 1, Len(tokens)) = tokens
               /\ Last(tokens').token_type = "String"
               /\ source[CharsBefore(current')] = "\""
               /\ Last(tokens').line = LineOfOffset(start)
                     + NewlineCount(SubSeq(source, CharsBefore(start) + 2, CharsBefore(current') - 1))
               /\ line' = line
          ELSE /\ tokens' = tokens
               /\ line' = line + (IF current' > current /\ source[CharsBefore(current')] = "\n"
                                  THEN 1 ELSE 0)
      ]_vars

\* a String token whose literal holds two newlines
C4_Witness ==
    \E i \in 1..Len(tokens) :
        /\ tokens[i].token_type = "String"
        /\ NewlineCount(tokens[i].literal.value) = 2
        /\ tokens[i].line >= 3

----------------------------------------------------------------------------
\* C5: token lines never decrease along the sequence (Eof included), the
\* first is at least 1, none exceeds the line counter, and the line counter
\* starts at 1 and never goes down.
C5_LinesOrdered ==
    /\ line >= 1
    /\ \A i \in 1..Len(tokens) : 1 <= tokens[i].line /\ tokens[i].line <= line
    /\ \A i \in 1..Len(tokens) : \A j \in i..Len(tokens) : tokens[i].line <= tokens[j].line

C5_Monotonic ==
    /\ line = 1
    /\ []C5_LinesOrdered
    /\ [][line' >= line]_vars

\* three tokens on three different lines
C5_Witness ==
    /\ Len(tokens) >= 3
    /\ tokens[1].line < tokens[2].line
    /\ tokens[2].line < tokens[3].line

----------------------------------------------------------------------------
\* C6: a token carries a String literal exactly when its kind is String, a
\* Number literal exactly when its kind is Number, and no literal otherwise.
C6_LiteralMatchesKind ==
    \A i \in 1..Len(tokens) :
        /\ tokens[i].literal.tag \in {"None", "String", "Number"}
        /\ tokens[i].literal.tag = "String" <=> tokens[i].token_type = "String"
        /\ tokens[i].literal.tag = "Number" <=> tokens[i].token_type = "Number"

\* a finished scan that produced a Number, a String and the Eof
C6_Witness ==
    /\ pc = "done"
    /\ Len(tokens) = 3
    /\ \E i \in 1..Len(tokens) : tokens[i].token_type = "Number"
    /\ \E i \in 1..Len(tokens) : tokens[i].token_type = "String"

----------------------------------------------------------------------------
\* C7: the lexeme of every token pushed before Eof is the run of source
\* characters from byte offset `start` to byte offset `current` at that
\* moment, unaltered and non-empty; a String token's lexeme begins and ends
\* with the quotes; tokens already pushed are never changed.
C7_LexemeIsSlice ==
    [][Emitted =>
          LET lex == Last(tokens').lexeme IN
          /\ SubSeq(tokens', 1, Len(tokens)) = tokens
          /\ lex # <<>>
          /\ \E i \in 0..Len(source) :
                /\ PrefixBytes(i) = start'
                /\ PrefixBytes(i + Len(lex)) = current'
                /\ i + Len(lex) <= Len(source)
                /\ \A k \in 1..Len(lex) : lex[k] = source[i + k]
          /\ Last(tokens').token_type = "String" =>
                Len(lex) >= 2 /\ lex[1] = "\"" /\ lex[Len(lex)] = "\""
      ]_vars

\* a String token of at least three characters pushed after another token
C7_Witness ==
    \E i \in 2..Len(tokens) :
        /\ tokens[i].token_type = "String"
        /\ Len(tokens[i].lexeme) >= 3
        /\ tokens[i - 1].lexeme # <<>>

----------------------------------------------------------------------------
\* C8: a Number token's lexeme is digits or digits.digits; when it is
\* pushed the run is maximal (the next character is not a digit, and a dot
\* that follows a digits-only lexeme is not followed by a digit); a source
\* made of a number and one trailing dot scans to Number, Dot, Eof.

IsDigitRun(text) == text # <<>> /\ \A i \in 1..Len(text) : text[i] \in Digits

IsNumberForm(text) ==
    \/ IsDigitRun(text)
    \/ \E d \in 2..(Len(text) - 1) :
          /\ text[d] = "."
          /\ IsDigitRun(SubSeq(text, 1, d - 1))
          /\ IsDigitRun(SubSeq(text, d + 1, Len(text)))

\* the k-th character of the source, NUL past its end
SourceChar(k) == IF k \in 1..Len(source) THEN source[k] ELSE NUL

C8_NumberForms ==
    \A i \in 1..Len(tokens) :
        tokens[i].token_type = "Number" => IsNumberForm(tokens[i].lexeme)

C8_TrailingDot ==
    (pc = "done" /\ source # <<>> /\ Last(source) = "."
        /\ IsNumberForm(SubSeq(source, 1, Len(source) - 1)))
    => /\ Len(tokens) = 3
       /\ tokens[1].token_type = "Number"
       /\ tokens[1].lexeme = SubSeq(source, 1, Len(source) - 1)
       /\ tokens[2] = [token_type |-> "Dot", lexeme |-> <<".">>,
                       literal |-> [tag |-> "None"], line |-> 1]
       /\ tokens[3].token_type = "Eof"

C8_NumberScan ==
    /\ [](C8_NumberForms /\ C8_TrailingDot)
    /\ [][(Emitted /\ Last(tokens').token_type = "Number") =>
             LET lex == Last(tokens').lexeme
                 k == CharsBefore(current') + 1
             IN /\ SourceChar(k) \notin Digits
                /\ (IsDigitRun(lex) /\ SourceChar(k) = ".") => SourceChar(k + 1) \notin Digits
         ]_vars

\* the source `digits.digits.` scanned to its end: the first dot is inside
\* the Number token, the last one is a Dot token
C8_Witness ==
    /\ pc = "done"
    /\ Len(tokens) = 3
    /\ tokens[1].token_type = "Number"
    /\ \E d \in 1..Len(tokens[1].lexeme) : tokens[1].lexeme[d] = "."
    /\ tokens[2].token_type = "Dot"
    /\ Last(source) = "."

----------------------------------------------------------------------------
\* C9: dispatch on `!`, `=`, `<` or `>` pushes exactly one token: the
\* two-character kind, with the `=` consumed, when the next character is
\* `=`, and the one-character kind, with the next character left, otherwise.
\* A source made of these characters only scans to tokens whose lexemes,
\* in order, make up the source exactly.

RefOperatorKind(lex) ==
    CASE lex = <<"!">> -> "Bang"
      [] lex = <<"!", "=">> -> "BangEqual"
      [] lex = <<"=">> -> "Equal"
      [] lex = <<"=", "=">> -> "EqualEqual"
      [] lex = <<"<">> -> "Less"
      [] lex = <<"<", "=">> -> "LessEqual"
      [] lex = <<">">> -> "Greater"
      [] lex = <<">", "=">> -> "GreaterEqual"
      [] OTHER -> "None"

C9_Step ==
    LET k == CharsBefore(current) + 1
        lex == IF SourceChar(k + 1) = "=" THEN <<source[k], "=">> ELSE <<source[k]>>
    IN (pc = "main" /\ SourceChar(k) \in {"!", "=", "<", ">"}) =>
          /\ tokens' = Append(tokens, [token_type |-> RefOperatorKind(lex), lexeme |-> lex,
                                       literal |-> [tag |-> "None"], line |-> line])
          /\ current' = current + Len(lex)
          /\ pc' = "main"

C9_Run ==
    (pc = "done" /\ \A i \in 1..Len(source) : source[i] \in {"!", "=", "<", ">"}) =>
        /\ Flatten([i \in 1..Len(tokens) |-> tokens[i].lexeme]) = source
        /\ \A i \in 1..(Len(tokens) - 1) :
              /\ tokens[i].token_type = RefOperatorKind(tokens[i].lexeme)
              /\ tokens[i].token_type # "None"
              /\ (Len(tokens[i].lexeme) = 1 /\ i + 1 < Len(tokens))
                    => tokens[i + 1].lexeme[1] # "="

C9_Operators == [][C9_Step]_vars /\ []C9_Run

\* `!==`-like input: a two-character operator directly followed by a
\* one-character one, and a one-character one followed by another operator
C9_Witness ==
    /\ pc = "done"
    /\ \E i \in 1..(Len(tokens) - 2) :
          /\ Len(tokens[i].lexeme) = 2
          /\ tokens[i].token_type \in {"BangEqual", "EqualEqual", "LessEqual", "GreaterEqual"}
          /\ tokens[i + 1].token_type \in {"Bang", "Equal", "Less", "Greater"}
          /\ tokens[i + 2].token_type \in {"Bang", "Less", "Greater"}

----------------------------------------------------------------------------
\* C10: inside a block comment the depth counter is 1 for the opening `/*`
\* plus the `/*` pairs minus the `*/` pairs consumed since; the comment
\* ends at the `*/` that brings the depth to 0, not before and not after;
\* no token is pushed while a comment is scanned; and a source of comments,
\* `+`, `*`, `/` and newlines scans to the tokens of its text outside the
\* comments.

\* depth after the characters i..j of the source, read pair by pair (a pair
\* counts when both its characters are within i..j)
RECURSIVE RefDepth(_, _, _)
RefDepth(i, j, d) ==
    IF i > j THEN d
    ELSE IF i < j /\ SourceChar(i) = "/" /\ SourceChar(i + 1) = "*"
    THEN RefDepth(i + 2, j, d + 1)
    ELSE IF i < j /\ SourceChar(i) = "*" /\ SourceChar(i + 1) = "/"
    THEN RefDepth(i + 2, j, d - 1)
    ELSE RefDepth(i + 1, j, d)

\* index of the first newline at or after character i, or one past the end
RECURSIVE RefLineEnd(_)
RefLineEnd(i) == IF i > Len(source) \/ source[i] = "\n" THEN i ELSE RefLineEnd(i + 1)

\* token kinds of the source from character i on, at comment depth d
RECURSIVE RefKinds(_, _)
RefKinds(i, d) ==
    IF i > Len(source) THEN <<"Eof">>
    ELSE IF d > 0
    THEN IF SourceChar(i) = "/" /\ SourceChar(i + 1) = "*" THEN RefKinds(i + 2, d + 1)
         ELSE IF SourceChar(i) = "*" /\ SourceChar(i + 1) = "/" THEN RefKinds(i + 2, d - 1)
         ELSE RefKinds(i + 1, d)
    ELSE IF SourceChar(i) = "/" /\ SourceChar(i + 1) = "*" THEN RefKinds(i + 2, 1)
    ELSE IF SourceChar(i) = "/" /\ SourceChar(i + 1) = "/" THEN RefKinds(RefLineEnd(i), 0)
    ELSE IF SourceChar(i) = "\n" THEN RefKinds(i + 1, 0)
    ELSE <<CASE SourceChar(i) = "+" -> "Plus"
             [] SourceChar(i) = "*" -> "Star"
             [] SourceChar(i) = "/" -> "Slash">> \o RefKinds(i + 1, 0)

C10_Depth ==
    pc = "block_comment" =>
        /\ depth >= 0
        /\ depth = RefDepth(CharsBefore(start) + 1, CharsBefore(current), 0)
        /\ \A j \in (CharsBefore(start) + 2)..(CharsBefore(current) - 1) :
              RefDepth(CharsBefore(start) + 1, j, 0) > 0

C10_Kinds ==
    (pc = "done" /\ \A i \in 1..Len(source) : source[i] \in {"/", "*", "+", "\n"}) =>
        [i \in 1..Len(tokens) |-> tokens[i].token_type] = RefKinds(1, 0)

C10_Step ==
    /\ (pc = "block_comment" \/ pc' = "block_comment") => tokens' = tokens
    /\ (pc = "main" /\ pc' = "block_comment") => depth' = 1 /\ current' = current + 2
    /\ (pc = "block_comment" /\ depth = 0) => pc' = "main" /\ current' = current
    /\ (pc = "block_comment" /\ pc' = "main") =>
          \/ depth = 0 /\ diagnostics' = diagnostics
          \/ depth > 0 /\ current >= ByteLen(source) /\ diagnostics' # diagnostics
    /\ (pc = "block_comment" /\ pc' = "block_comment") =>
          depth' - depth = (IF CharsBefore(current') = CharsBefore(current) + 2
                            THEN IF SourceChar(CharsBefore(current) + 1) = "/" THEN 1 ELSE -1
                            ELSE 0)

C10_BlockComments == [](C10_Depth /\ C10_Kinds) /\ [][C10_Step]_vars

\* a comment nested in a comment, both closed, and a token after them
C10_Witness ==
    /\ pc = "done"
    /\ diagnostics = <<>>
    /\ Len(source) >= 9
    /\ SubSeq(source, 1, 4) = <<"/", "*", "/", "*">>
    /\ [i \in 1..Len(tokens) |-> tokens[i].token_type] = <<"Plus", "Eof">>

----------------------------------------------------------------------------
(* Reference notions for the diagnostics *)

\* number of diagnostics with a given message
DiagCount(message) ==
    Cardinality({i \in 1..Len(diagnostics) : diagnostics[i].message = message})

\* comment depth at the end of a source without quotes, read from character i
\* on at depth d
RECURSIVE RefEndDepth(_, _)
RefEndDepth(i, d) ==
    IF i > Len(source) THEN d
    ELSE IF d > 0
    THEN IF SourceChar(i) = "/" /\ SourceChar(i + 1) = "*" THEN RefEndDepth(i + 2, d + 1)
         ELSE IF SourceChar(i) = "*" /\ SourceChar(i + 1) = "/" THEN RefEndDepth(i + 2, d - 1)
         ELSE RefEndDepth(i + 1, d)
    ELSE IF SourceChar(i) = "/" /\ SourceChar(i + 1) = "*" THEN RefEndDepth(i + 2, 1)
    ELSE IF SourceChar(i) = "/" /\ SourceChar(i + 1) = "/" THEN RefEndDepth(RefLineEnd(i), 0)
    ELSE RefEndDepth(i + 1, 0)

SourceHas(c) == \E i \in 1..Len(source) : source[i] = c

----------------------------------------------------------------------------
\* C11: when the input ends inside a block comment, at any depth, the step
\* that finds the end reports one "Unterminated block comment." and returns
\* to the main loop with the tokens, the cursor and the line unchanged; the
\* cursor is never past the end; at most one such diagnostic exists, and a
\* finished scan of a source without quotes has one exactly when the source
\* ends inside a comment, and ends in Eof.
C11_Step ==
    (pc = "block_comment" /\ depth > 0 /\ current >= ByteLen(source)) =>
        /\ diagnostics' = Append(diagnostics,
                                 [line |-> line, message |-> "Unterminated block comment."])
        /\ tokens' = tokens
        /\ pc' = "main"
        /\ current' = current
        /\ line' = line

C11_State ==
    /\ current <= ByteLen(source)
    /\ DiagCount("Unterminated block comment.") <= 1
    /\ DiagCount("Unterminated block comment.") = 1 =>
          pc \in {"main", "done"} /\ current = ByteLen(source)
    /\ (pc = "done" /\ ~SourceHas("\"")) =>
          /\ DiagCount("Unterminated block comment.") = (IF RefEndDepth(1, 0) >= 1 THEN 1 ELSE 0)
          /\ Last(tokens).token_type = "Eof"

C11_UnterminatedComment == []C11_State /\ [][C11_Step]_vars

\* a token, then a comment left open at depth two, scanned to Eof
C11_Witness ==
    /\ pc = "done"
    /\ ~SourceHas("\"")
    /\ RefEndDepth(1, 0) >= 2
    /\ DiagCount("Unterminated block comment.") = 1
    /\ Len(tokens) >= 2

----------------------------------------------------------------------------
\* C12: when the input ends inside a string literal, the step that finds
\* the end reports one "Unterminated string." and returns to the main loop
\* with the tokens and the cursor unchanged; at most one such diagnostic
\* exists, and a finished scan of a source with q quotes and no comment has
\* q div 2 String tokens, q mod 2 such diagnostics, and ends in Eof.
C12_Step ==
    (pc = "string" /\ current >= ByteLen(source)) =>
        /\ diagnostics' = Append(diagnostics, [line |-> line, message |-> "Unterminated string."])
        /\ tokens' = tokens
        /\ pc' = "main"
        /\ current' = current

C12_State ==
    /\ DiagCount("Unterminated string.") <= 1
    /\ (pc = "done" /\ ~SourceHas("/")) =>
          LET q == Cardinality({i \in 1..Len(source) : source[i] = "\""}) IN
          /\ DiagCount("Unterminated string.") = q % 2
          /\ Cardinality({i \in 1..Len(tokens) : tokens[i].token_type = "String"}) = q \div 2
          /\ Last(tokens).token_type = "Eof"

C12_UnterminatedString == []C12_State /\ [][C12_Step]_vars

\* a closed literal, then one the input ends in
C12_Witness ==
    /\ pc = "done"
    /\ DiagCount("Unterminated string.") = 1
    /\ Len(tokens) = 2
    /\ tokens[1].token_type = "String"
    /\ Len(source) >= 4

----------------------------------------------------------------------------
\* C13: dispatch on a character that starts no lexical category reports one
\* "Unexpected character." with the current line, leaves the tokens and the
\* line unchanged, moves `current` past exactly that character and stays in
\* the main loop; no other step reports it; a finished scan of a source
\* without quotes and slashes has one such diagnostic per such character.

RefCategoryStart ==
    {"(", ")", "{", "}", ",", ".", "-", "+", ";", "*", "!", "=", "<", ">", "/",
     " ", "\r", "\t", "\n", "\"", "_"} \cup Digits \cup Letters

C13_Step ==
    LET k == CharsBefore(current) + 1
        hit == pc = "main" /\ current < ByteLen(source) /\ SourceChar(k) \notin RefCategoryStart
    IN /\ hit =>
            /\ diagnostics' = Append(diagnostics,
                                     [line |-> line, message |-> "Unexpected character."])
            /\ tokens' = tokens
            /\ line' = line
            /\ pc' = "main"
            /\ current' = PrefixBytes(k)
       /\ DiagCount("Unexpected character.")' # DiagCount("Unexpected character.") => hit

C13_Final ==
    (pc = "done" /\ ~SourceHas("\"") /\ ~SourceHas("/")) =>
        /\ DiagCount("Unexpected character.")
              = Cardinality({i \in 1..Len(source) : source[i] \notin RefCategoryStart})
        /\ Len(diagnostics) = DiagCount("Unexpected character.")

C13_UnexpectedCharacter == []C13_Final /\ [][C13_Step]_vars

\* two such characters on different lines, one of them of two bytes
C13_Witness ==
    /\ pc = "done"
    /\ DiagCount("Unexpected character.") = 2
    /\ diagnostics[1].line # diagnostics[2].line
    /\ SourceHas(Multibyte2)
    /\ tokens = <<[token_type |-> "Eof", lexeme |-> <<>>, literal |-> [tag |-> "None"],
                   line |-> 2]>>

----------------------------------------------------------------------------
\* C14: the identifier sub-scan consumes letters, digits and underscores
\* until the next character is none of them, and then pushes one token for
\* the whole run: the keyword kind when the run is exactly one of the
\* sixteen reserved words, each with a kind of its own, Identifier
\* otherwise; a reserved word followed by a letter is one Identifier.

RefWordChars == Letters \cup Digits \cup {"_"}

RefKeywordTable ==
    {<<<<"a", "n", "d">>, "And">>, <<<<"c", "l", "a", "s", "s">>, "Class">>,
     <<<<"e", "l", "s", "e">>, "Else">>, <<<<"f", "a", "l", "s", "e">>, "False">>,
     <<<<"f", "o", "r">>, "For">>, <<<<"f", "u", "n">>, "Fun">>, <<<<"i", "f">>, "If">>,
     <<<<"n", "i", "l">>, "Nil">>, <<<<"o", "r">>, "Or">>,
     <<<<"p", "r", "i", "n", "t">>, "Print">>, <<<<"r", "e", "t", "u", "r", "n">>, "Return">>,
     <<<<"s", "u", "p", "e", "r">>, "Super">>, <<<<"t", "h", "i", "s">>, "This">>,
     <<<<"t", "r", "u", "e">>, "True">>, <<<<"v", "a", "r">>, "Var">>,
     <<<<"w", "h", "i", "l", "e">>, "While">>}

RefWordKind(text) ==
    IF \E p \in RefKeywordTable : p[1] = text
    THEN (CHOOSE p \in RefKeywordTable : p[1] = text)[2]
    ELSE "Identifier"

C14_Step ==
    pc = "identifier" =>
        LET i == CharsBefore(start)
            j == CharsBefore(current)
        IN IF SourceChar(j + 1) \in RefWordChars
           THEN /\ pc' = "identifier"
                /\ current' = current + 1
                /\ tokens' = tokens
           ELSE /\ pc' = "main"
                /\ current' = current
                /\ i < j
                /\ source[i + 1] \in Letters \cup {"_"}
                /\ \A k \in (i + 1)..j : source[k] \in RefWordChars
                /\ tokens' = Append(tokens,
                       [token_type |-> RefWordKind(SubSeq(source, i + 1, j)),
                        lexeme |-> SubSeq(source, i + 1, j),
                        literal |-> [tag |-> "None"], line |-> line])

C14_State ==
    /\ Cardinality({p[2] : p \in RefKeywordTable}) = 16
    /\ \A p \in RefKeywordTable : keyword_type(p[1]) = p[2]
    /\ (pc = "done" /\ \E p \in RefKeywordTable : source = p[1] \o <<"y">>) =>
          /\ Len(tokens) = 2
          /\ tokens[1].token_type = "Identifier"
          /\ tokens[1].lexeme = source
    /\ (pc = "done" /\ \E p \in RefKeywordTable : source = p[1]) =>
          /\ Len(tokens) = 2
          /\ tokens[1].token_type = RefWordKind(source)
          /\ tokens[1].token_type # "Identifier"

C14_Identifiers == []C14_State /\ [][C14_Step]_vars

\* `class classy` scanned to its end
C14_Witness ==
    /\ pc = "done"
    /\ [i \in 1..Len(tokens) |-> tokens[i].token_type] = <<"Class", "Identifier", "Eof">>
    /\ tokens[2].lexeme = <<"c", "l", "a", "s", "s", "y">>

----------------------------------------------------------------------------
\* C15: a line comment is entered on `//` with both slashes consumed; each
\* of its steps consumes one character that is not a newline, or returns to
\* the main loop at the newline or at the end of input without consuming;
\* tokens, line counter and diagnostics do not change; a comment followed
\* by a newline and `+` scans to Plus and Eof, both on line 2.
C15_Step ==
    /\ (pc = "main" /\ pc' = "line_comment") =>
          /\ SourceChar(CharsBefore(current) + 1) = "/"
          /\ SourceChar(CharsBefore(current) + 2) = "/"
          /\ current' = current + 2
          /\ tokens' = tokens /\ line' = line /\ diagnostics' = diagnostics
    /\ pc = "line_comment" =>
          LET k == CharsBefore(current) + 1 IN
          /\ tokens' = tokens /\ line' = line /\ diagnostics' = diagnostics
          /\ IF k > Len(source) \/ source[k] = "\n"
             THEN pc' = "main" /\ current' = current
             ELSE pc' = "line_comment" /\ current' = PrefixBytes(k)

C15_Final ==
    (/\ pc = "done"
     /\ Len(source) >= 4
     /\ SubSeq(source, 1, 2) = <<"/", "/">>
     /\ SubSeq(source, Len(source) - 1, Len(source)) = <<"\n", "+">>
     /\ \A i \in 3..(Len(source) - 2) : source[i] # "\n")
    => /\ tokens = <<[token_type |-> "Plus", lexeme |-> <<"+">>,
                      literal |-> [tag |-> "None"], line |-> 2],
                     [token_type |-> "Eof", lexeme |-> <<>>,
                      literal |-> [tag |-> "None"], line |-> 2]>>
       /\ diagnostics = <<>>

C15_LineComments == []C15_Final /\ [][C15_Step]_vars

\* a comment with text in it, a newline and a token, scanned to the end
C15_Witness ==
    /\ pc = "done"
    /\ Len(source) >= 5
    /\ SubSeq(source, 1, 2) = <<"/", "/">>
    /\ [i \in 1..Len(tokens) |-> tokens[i].line] = <<2, 2>>
    /\ tokens[1].token_type = "Plus"

----------------------------------------------------------------------------
\* C16: dispatch on a space, carriage return or tab moves the cursor past
\* that character and changes nothing else; a source of these characters
\* only scans to the single token Eof on line 1, without diagnostics.
C16_Step ==
    (pc = "main" /\ current < ByteLen(source)
        /\ SourceChar(CharsBefore(current) + 1) \in {" ", "\r", "\t"}) =>
        /\ start' = current
        /\ current' = current + 1
        /\ UNCHANGED <<source, tokens, line, pc, depth, diagnostics>>

C16_Final ==
    (pc = "done" /\ \A i \in 1..Len(source) : source[i] \in {" ", "\r", "\t"}) =>
        /\ tokens = <<[token_type |-> "Eof", lexeme |-> <<>>,
                       literal |-> [tag |-> "None"], line |-> 1]>>
        /\ diagnostics = <<>>

C16_Whitespace == []C16_Final /\ [][C16_Step]_vars

\* a source with a space, a carriage return and a tab, scanned to the end
C16_Witness ==
    /\ pc = "done"
    /\ SourceHas(" ") /\ SourceHas("\r") /\ SourceHas("\t")
    /\ \A i \in 1..Len(source) : source[i] \in {" ", "\r", "\t"}
    /\ Len(tokens) = 1

----------------------------------------------------------------------------
\* C17: the line counter is always 1 plus the number of newlines of the
\* source that start before `current`, in whatever sub-scan they were
\* consumed; every token pushed carries 1 plus the number of newlines before
\* its end offset; the Eof token carries 1 plus the number of newlines of
\* the whole source, and N newlines followed by a token give line N + 1.
C17_Step ==
    Len(tokens') = Len(tokens) + 1 =>
        Last(tokens').line = LineOfOffset(current')

C17_State ==
    /\ line = LineOfOffset(current)
    /\ pc = "done" => Last(tokens).line = 1 + NewlineCount(source)
    /\ (/\ pc = "done"
        /\ Len(source) >= 2
        /\ Last(source) = "+"
        /\ \A i \in 1..(Len(source) - 1) : source[i] = "\n")
       => /\ Len(tokens) = 2
          /\ tokens[1].token_type = "Plus"
          /\ tokens[1].line = Len(source)

C17_NewlinesCounted == []C17_State /\ [][C17_Step]_vars

\* a token after a block comment that holds a newline
C17_Witness ==
    /\ pc = "done"
    /\ Len(source) >= 5
    /\ SubSeq(source, 1, 5) = <<"/", "*", "\n", "*", "/">>
    /\ Len(tokens) = 2
    /\ tokens[1].token_type = "Plus"
    /\ tokens[1].line = 2

----------------------------------------------------------------------------
\* C18: at every cursor position peek is the character at `current` and
\* peek_next the character after it, each the null character when the
\* source has no such character; the cursor never passes the end: digits
\* followed by a final `.` scan to Number, Dot, Eof, and `/*` followed by a
\* final `*` or `/` scans to one unterminated-comment diagnostic and Eof.
C18_Lookahead ==
    /\ pc # "panicked"
    /\ current <= ByteLen(source)
    /\ IsCharBoundary(current)
    /\ LET k == CharsBefore(current) IN
          /\ peek = (IF k + 1 <= Len(source) THEN source[k + 1] ELSE NUL)
          /\ peek_next = (IF k + 2 <= Len(source) THEN source[k + 2] ELSE NUL)
    /\ (/\ pc = "done"
        /\ Len(source) >= 2
        /\ Last(source) = "."
        /\ IsDigitRun(SubSeq(source, 1, Len(source) - 1)))
       => /\ [i \in 1..Len(tokens) |-> tokens[i].token_type] = <<"Number", "Dot", "Eof">>
          /\ tokens[1].lexeme = SubSeq(source, 1, Len(source) - 1)
    /\ (/\ pc = "done"
        /\ Len(source) = 3
        /\ SubSeq(source, 1, 2) = <<"/", "*">>
        /\ source[3] \in {"*", "/"})
       => /\ Len(tokens) = 1
          /\ DiagCount("Unterminated block comment.") = 1
          /\ Len(diagnostics) = 1

\* the number sub-scan looking at a final `.`
C18_Witness ==
    /\ pc = "number"
    /\ current + 1 = ByteLen(source)
    /\ peek = "."
    /\ peek_next = NUL

----------------------------------------------------------------------------
\* C19: in every state 0 <= start <= current <= byte length of the source
\* and both offsets are character boundaries; a step that moves `current`
\* starts before the end of input and moves it over one or two whole
\* characters; the slice taken for a string literal is in range and on
\* character boundaries; no scan panics.
C19_State ==
    /\ pc # "panicked"
    /\ 0 <= start /\ start <= current /\ current <= ByteLen(source)
    /\ IsCharBoundary(start)
    /\ IsCharBoundary(current)

C19_Step ==
    /\ current' # current =>
          /\ current < ByteLen(source)
          /\ \E k \in 1..Len(source) :
                /\ PrefixBytes(k - 1) = current
                /\ \/ current' = current + len_utf8(source[k])
                   \/ /\ k < Len(source)
                      /\ current' = current + len_utf8(source[k]) + len_utf8(source[k + 1])
    /\ (pc = "string" /\ Len(tokens') = Len(tokens) + 1) =>
          /\ start + 1 <= current' - 1
          /\ IsCharBoundary(start + 1)
          /\ IsCharBoundary(current' - 1)

C19_Offsets == []C19_State /\ [][C19_Step]_vars

\* a string literal holding a four-byte character, scanned to the end
C19_Witness ==
    /\ pc = "done"
    /\ current = 6
    /\ tokens[1].token_type = "String"
    /\ tokens[1].literal.value = <<Multibyte4>>

----------------------------------------------------------------------------
\* C20: the string sub-scan pushes its token at the first quote after the
\* opening one, a backslash before it or not; the literal is the source
\* text strictly between the two quotes, the lexeme is that text with both
\* quotes, and backslashes and newlines are kept as they are.
RefFirstQuoteAfter(i) ==
    IF \E q \in (i + 1)..Len(source) : source[q] = "\""
    THEN CHOOSE q \in (i + 1)..Len(source) :
             source[q] = "\"" /\ \A r \in (i + 1)..(q - 1) : source[r] # "\""
    ELSE 0

C20_Step ==
    (pc = "string" /\ Len(tokens') = Len(tokens) + 1) =>
        LET i == CharsBefore(start) + 1
            q == RefFirstQuoteAfter(i)
        IN /\ source[i] = "\""
           /\ q > i
           /\ CharsBefore(current') = q
           /\ Last(tokens').token_type = "String"
           /\ Last(tokens').literal = [tag |-> "String", value |-> SubSeq(source, i + 1, q - 1)]
           /\ Last(tokens').lexeme = SubSeq(source, i, q)

C20_State ==
    (pc = "done" /\ Len(source) >= 1 /\ source[1] = "\"" /\ RefFirstQuoteAfter(1) > 1) =>
        LET q == RefFirstQuoteAfter(1) IN
        /\ Len(tokens) >= 2
        /\ tokens[1].token_type = "String"
        /\ tokens[1].literal.value = SubSeq(source, 2, q - 1)
        /\ tokens[1].lexeme = SubSeq(tokens[1].lexeme, 1, 1) \o tokens[1].literal.value
                                  \o SubSeq(tokens[1].lexeme, Len(tokens[1].lexeme), Len(tokens[1].lexeme))

C20_StringLiteral == []C20_State /\ [][C20_Step]_vars

\* a literal of a newline and a backslash, closed by the quote after the backslash
C20_Witness ==
    /\ pc = "done"
    /\ tokens[1].token_type = "String"
    /\ tokens[1].literal.value = <<"\n", "\\">>
    /\ Len(tokens) = 2

====
